---------------------------- MODULE Spec2Model ----------------------------
(***************************************************************************)
(* Model of the audio-file-speed-control add-on: the reference detector    *)
(* (src/audio/detector.py), the filter planner, transcode executor and     *)
(* batch orchestrator (src/audio/processor.py), the reference rewriter     *)
(* (src/core/card_processor.py) and the undo button of the completion      *)
(* dialog (src/ui/completion_dialog.py).                                   *)
(*                                                                         *)
(* Text (field contents, tags, file names) is a sequence of one-character  *)
(* strings, so that str.replace, the two regular expressions and           *)
(* os.path.splitext are computed character by character as the code does.  *)
(* A speed is a natural number of SpeedUnit-ths (1.2 is 12000000).          *)
(***************************************************************************)
EXTENDS Integers, Sequences, FiniteSets, TLC

VARIABLES
    pc,             \* position of the harness / of the running function
    speed,          \* the speed argument, in 1/SpeedUnit
    filter_chain,   \* result of build_atempo_filter(speed): its stages
    audio_files,    \* the candidate list handed to process_audio_batch
    ffmpeg_path,    \* what find_ffmpeg() returned: "ffmpeg" or "none"
    has_progress,   \* a progress_callback was supplied
    has_cancel,     \* a cancel_check was supplied
    mediaDir,       \* the media directory: file name -> size in bytes
    unique_files,   \* keys of the dict unique_files, in insertion order
    idx,            \* number of loop iterations of the batch started so far
    successful,     \* list successful of process_audio_batch
    failed,         \* list failed of process_audio_batch
    total_processed,\* BatchProcessingResult.total_processed
    cancelChecks,   \* values returned by cancel_check(), in call order
    progressLog,    \* calls of progress_callback, in call order
    attempts,       \* calls of process_audio_file, in call order
    invocations,    \* runs of the external transcoder (subprocess.run)
    notes,          \* the record store: note id -> sequence of field texts
    card_ids,       \* the card ids handed to detect_audio_in_cards
    detected,       \* AudioDetectionResult.audio_files
    skip_processed, \* the candidates exclude already processed files
    card_updates,   \* result of build_card_updates
    undo_record,    \* UndoRecord returned by apply_card_updates
    todo,           \* note ids the running commit / revert pass still visits
    updateLog,      \* calls of mw.col.update_note, in call order
    preCommit,      \* the record store when apply_card_updates was entered
    preRevert,      \* the record store when the running revert was entered
    reverts,        \* number of completed revert_card_updates passes
    undo_applied,   \* CompletionDialog.undo_applied
    undo_enabled,   \* CompletionDialog.undo_btn.isEnabled()
    undoCalls,      \* calls of revert_card_updates made by _on_undo
    given_name,     \* the file name handed to generate_speed_filename
    new_speed,      \* the speed of a second call of generate_speed_filename
    renamed,        \* generate_speed_filename(given_name, speed)
    renamed_again,  \* generate_speed_filename(renamed, new_speed)
    renamed_direct, \* generate_speed_filename(given_name, new_speed)
    temp_dir,       \* SpeedUpAudioDialog.temp_dir: "none", "present" or "removed"
    temp_files,     \* the preview files in temp_dir: <<speed, file name>>
    preview_files,  \* keys of SpeedUpAudioDialog.preview_files
    ok_enabled,     \* ok_btn.isEnabled() (and preview_btn.isEnabled())
    dialog_result,  \* how the dialog was ended: "none", "accepted", "rejected"
    previews,       \* number of clicks on the preview button so far
    cancelled       \* number of batches of _on_ok cancelled so far

planVars == <<filter_chain>>
batchVars == <<audio_files, ffmpeg_path, has_progress, has_cancel, unique_files,
               idx, successful, failed, total_processed, cancelChecks,
               progressLog, attempts, invocations>>
rewriteVars == <<notes, card_ids, detected, skip_processed, card_updates,
                 undo_record, todo, updateLog, preCommit, preRevert, reverts,
                 undo_applied, undo_enabled, undoCalls>>
nameVars == <<given_name, new_speed, renamed, renamed_again, renamed_direct>>
sessionVars == <<temp_dir, temp_files, preview_files, ok_enabled, dialog_result,
                 previews, cancelled>>
vars == <<pc, speed, mediaDir, planVars, batchVars, rewriteVars, nameVars,
          sessionVars>>

----------------------------------------------------------------------------
(* Bounds of the model.                                                    *)

\* longest candidate list handed to process_audio_batch
MaxCandidates == 3
\* longest card id list handed to detect_audio_in_cards
MaxCards == 2
\* largest speed, in tenths, handed to build_atempo_filter
MaxTenths == 80
\* revert_card_updates passes run on one ledger
MaxReverts == 2
\* clicks on the preview button in one session of the dialog
MaxPreviews == 1
\* batches cancelled by the user in one session of the dialog
MaxCancelled == 1

----------------------------------------------------------------------------
(* Text.                                                                   *)

\* number of speed units in 1.0
SpeedUnit == 10 * 1000000

DigitChars == <<"0", "1", "2", "3", "4", "5", "6", "7", "8", "9">>
LowerLetters == {"a", "b", "c", "d", "e", "f", "g", "h", "i", "j", "k", "l", "m",
                 "n", "o", "p", "q", "r", "s", "t", "u", "v", "w", "x", "y", "z"}
UpperLetters == {"A", "B", "C", "D", "E", "F", "G", "H", "I", "J", "K", "L", "M",
                 "N", "O", "P", "Q", "R", "S", "T", "U", "V", "W", "X", "Y", "Z"}

IsDigit(c) == \E i \in 1..10 : DigitChars[i] = c
DigitValue(c) == (CHOOSE i \in 1..10 : DigitChars[i] = c) - 1
IsAlnum(c) == IsDigit(c) \/ c \in LowerLetters \/ c \in UpperLetters

\* str.lower() of one character, for the upper-case letters file names use here
LowerChar(c) ==
    CASE c = "M" -> "m"
      [] c = "P" -> "p"
      [] c = "W" -> "w"
      [] c = "A" -> "a"
      [] c = "V" -> "v"
      [] OTHER -> c

Lower(s) == [i \in 1..Len(s) |-> LowerChar(s[i])]

\* s[from:] of Python, from counted from 1
Drop(s, from) == SubSeq(s, from, Len(s))

StartsWith(s, p) == Len(s) >= Len(p) /\ SubSeq(s, 1, Len(p)) = p

\* decimal digits of a natural number
RECURSIVE Digits(_)
Digits(n) == IF n < 10 THEN <<DigitChars[n + 1]>>
             ELSE Digits(n \div 10) \o <<DigitChars[(n % 10) + 1]>>

\* value of a non-empty run of decimal digits
RECURSIVE DigitsValue(_)
DigitsValue(ds) == IF Len(ds) = 0 THEN 0
                   ELSE 10 * DigitsValue(SubSeq(ds, 1, Len(ds) - 1)) + DigitValue(ds[Len(ds)])

\* num / den rounded to the nearest integer, ties to even, as float formatting
\* rounds the exact value it is given
RoundHalfEven(num, den) ==
    LET q == num \div den
        r == num % den
    IN  IF 2 * r < den THEN q
        ELSE IF 2 * r > den THEN q + 1
        ELSE IF q % 2 = 0 THEN q ELSE q + 1

\* f"{speed:.1f}": one decimal, never scientific
FormatOneDecimal(s) ==
    LET t == RoundHalfEven(s, SpeedUnit \div 10)
    IN  Digits(t \div 10) \o <<".">> \o Digits(t % 10)

\* str.replace(old, new) for a non-empty old: every non-overlapping occurrence,
\* scanning from the left
RECURSIVE Replace(_, _, _)
Replace(s, old, new) ==
    IF Len(s) < Len(old) THEN s
    ELSE IF SubSeq(s, 1, Len(old)) = old
         THEN new \o Replace(Drop(s, Len(old) + 1), old, new)
         ELSE <<s[1]>> \o Replace(Tail(s), old, new)

\* s contains sub as a substring
RECURSIVE Contains(_, _)
Contains(s, sub) ==
    IF Len(s) < Len(sub) THEN FALSE
    ELSE StartsWith(s, sub) \/ Contains(Tail(s), sub)

\* elements of a sequence
Range(s) == {s[i] : i \in 1..Len(s)}

\* all sequences over S of length at most n
SeqsUpTo(S, n) == UNION {[1..k -> S] : k \in 0..n}

----------------------------------------------------------------------------
(* src/audio/detector.py                                                   *)

SoundOpen == <<"[", "s", "o", "u", "n", "d", ":">>

\* f"[sound:{filename}]"
Tag(filename) == SoundOpen \o filename \o <<"]">>

\* length of the longest prefix of s holding no "]"
RECURSIVE NameRun(_)
NameRun(s) == IF Len(s) = 0 \/ s[1] = "]" THEN 0 ELSE 1 + NameRun(Tail(s))

\* SOUND_TAG_PATTERN.findall: \[sound:([^\]]+)\] from the left, non-overlapping;
\* the greedy name run must be non-empty and closed by "]"
RECURSIVE extract_sound_tags(_)
extract_sound_tags(field_content) ==
    IF Len(field_content) = 0 THEN <<>>
    ELSE IF StartsWith(field_content, SoundOpen)
         THEN LET rest == Drop(field_content, Len(SoundOpen) + 1)
                  n == NameRun(rest)
              IN  IF n >= 1 /\ n < Len(rest)
                  THEN <<SubSeq(rest, 1, n)>> \o extract_sound_tags(Drop(rest, n + 2))
                  ELSE extract_sound_tags(Tail(field_content))
         ELSE extract_sound_tags(Tail(field_content))

\* index of the last c in s, 0 when there is none (str.rfind, counted from 1)
RECURSIVE RFind(_, _)
RFind(s, c) == IF Len(s) = 0 THEN 0
               ELSE IF s[Len(s)] = c THEN Len(s)
               ELSE RFind(SubSeq(s, 1, Len(s) - 1), c)

\* os.path.splitext (posixpath): the extension starts at the last dot after the
\* last "/", unless only dots precede it in the file name
splitext(p) ==
    LET sepIndex == RFind(p, "/")
        dotIndex == RFind(p, ".")
        \* a character that is not a dot lies between the separator and the dot
        hasStem == \E i \in (sepIndex + 1)..(dotIndex - 1) : p[i] # "."
    IN  IF dotIndex > sepIndex /\ hasStem
        THEN <<SubSeq(p, 1, dotIndex - 1), Drop(p, dotIndex)>>
        ELSE <<p, <<>>>>

SUPPORTED_FORMATS ==
    { <<".", "m", "p", "3">>, <<".", "w", "a", "v">>, <<".", "o", "g", "g">>,
      <<".", "m", "4", "a">>, <<".", "m", "p", "4">>, <<".", "w", "e", "b", "m">> }

is_supported_format(filename) == splitext(Lower(filename))[2] \in SUPPORTED_FORMATS

\* length of the longest prefix of s made of decimal digits
RECURSIVE DigitRun(_)
DigitRun(s) == IF Len(s) = 0 \/ ~IsDigit(s[1]) THEN 0 ELSE 1 + DigitRun(Tail(s))

\* SPEED_PATTERN matched at the start of s: _(\d+\.\d+)x\.([a-zA-Z0-9]+)$ ;
\* the result is <<matched, group 1>>
SpeedPatternAt(s) ==
    IF Len(s) = 0 \/ s[1] # "_" THEN <<FALSE, <<>>>>
    ELSE LET a == Tail(s)
             n1 == DigitRun(a)
             b == Drop(a, n1 + 1)
         IN  IF n1 = 0 \/ Len(b) = 0 \/ b[1] # "." THEN <<FALSE, <<>>>>
             ELSE LET c == Tail(b)
                      n2 == DigitRun(c)
                      d == Drop(c, n2 + 1)
                  IN  IF n2 = 0 \/ Len(d) < 3 \/ d[1] # "x" \/ d[2] # "."
                      THEN <<FALSE, <<>>>>
                      ELSE IF \A i \in 3..Len(d) : IsAlnum(d[i])
                           THEN <<TRUE, SubSeq(a, 1, n1 + 1 + n2)>>
                           ELSE <<FALSE, <<>>>>

\* SPEED_PATTERN.search(s): <<start of the leftmost match counted from 1 (0 when
\* there is none), group 1>>
RECURSIVE SpeedPatternFrom(_, _)
SpeedPatternFrom(s, i) ==
    IF i > Len(s) THEN <<0, <<>>>>
    ELSE LET m == SpeedPatternAt(Drop(s, i))
         IN  IF m[1] THEN <<i, m[2]>> ELSE SpeedPatternFrom(s, i + 1)

SpeedPatternSearch(s) == SpeedPatternFrom(s, 1)

\* 10 to the power n
RECURSIVE Pow10(_)
Pow10(n) == IF n = 0 THEN 1 ELSE 10 * Pow10(n - 1)

\* float("<digits>.<digits>") in speed units, for at most seven decimals
ParseDecimal(text) ==
    LET n1 == DigitRun(text)
        whole == SubSeq(text, 1, n1)
        frac == Drop(text, n1 + 2)
    IN  DigitsValue(whole) * SpeedUnit
          + DigitsValue(frac) * (SpeedUnit \div Pow10(Len(frac)))

\* An Optional value is the empty sequence (None) or a sequence of one value;
\* an Optional[str] is the empty text or the text.
None == <<>>
Some(v) == <<v>>

\* the None of an error_message
NoMessage == "None"

\* parse_speed_from_filename keeping only the whole part of the speed
parse_speed_from_filename_whole(filename) ==
    LET m == SpeedPatternSearch(filename)
    IN  IF m[1] # 0
        THEN Some(DigitsValue(SubSeq(m[2], 1, DigitRun(m[2]))) * SpeedUnit)
        ELSE None

parse_speed_from_filename(filename) ==
    LET m == SpeedPatternSearch(filename)
    IN  IF m[1] # 0 THEN Some(ParseDecimal(m[2])) ELSE None

\* generate_speed_filename without the removal of an existing speed suffix
generate_speed_filename_unstripped(original, s) ==
    LET parts == splitext(original)
    IN  parts[1] \o <<"_">> \o FormatOneDecimal(s) \o <<"x">> \o parts[2]

generate_speed_filename(original, s) ==
    LET parts == splitext(original)
        ext == parts[2]
        base_with_ext == parts[1] \o ext
        existing_match == SpeedPatternSearch(base_with_ext)
        base == IF existing_match[1] # 0
                THEN SubSeq(base_with_ext, 1, existing_match[1] - 1)
                ELSE parts[1]
    IN  base \o <<"_">> \o FormatOneDecimal(s) \o <<"x">> \o ext

----------------------------------------------------------------------------
(* src/audio/processor.py: the filter planner                              *)

\* the decimal digits of n, zero-padded on the left to width characters
RECURSIVE PadDigits(_, _)
PadDigits(n, width) ==
    IF width = 0 THEN <<>>
    ELSE PadDigits(n \div 10, width - 1) \o <<DigitChars[(n % 10) + 1]>>

\* s without its trailing "0" characters, keeping at least one character
RECURSIVE StripZeros(_)
StripZeros(s) == IF Len(s) > 1 /\ s[Len(s)] = "0"
                 THEN StripZeros(SubSeq(s, 1, Len(s) - 1))
                 ELSE s

\* f"{speed}" (repr of a float) for a speed of at most seven decimals that needs
\* no exponent: the shortest decimal that reads back as the same value
Repr(s) == Digits(s \div SpeedUnit) \o <<".">> \o StripZeros(PadDigits(s % SpeedUnit, 7))

\* f"{remaining:.6f}" for remaining = num / den speed units
FormatSixDecimal(num, den) ==
    LET m == RoundHalfEven(num, den * (SpeedUnit \div 1000000))
    IN  Digits(m \div 1000000) \o <<".">> \o PadDigits(m % 1000000, 6)

\* ReduceChain with the loop running while remaining >= 2.0
RECURSIVE ReduceChainInclusive(_, _, _)
ReduceChainInclusive(num, den, filters) ==
    IF num >= 2 * SpeedUnit * den
    THEN ReduceChainInclusive(num, 2 * den, Append(filters, <<"2", ".", "0">>))
    ELSE IF 2 * num >= SpeedUnit * den
         THEN Append(filters, FormatSixDecimal(num, den))
         ELSE filters

\* ReduceChain without the statement after the loop: no remainder stage
RECURSIVE ReduceChainWithoutRemainder(_, _, _)
ReduceChainWithoutRemainder(num, den, filters) ==
    IF num > 2 * SpeedUnit * den
    THEN ReduceChainWithoutRemainder(num, 2 * den, Append(filters, <<"2", ".", "0">>))
    ELSE filters

\* the while loop of build_atempo_filter and the statement after it; remaining is
\* num / den speed units, and halving a float is exact
RECURSIVE ReduceChain(_, _, _)
ReduceChain(num, den, filters) ==
    IF num > 2 * SpeedUnit * den
    THEN ReduceChain(num, 2 * den, Append(filters, <<"2", ".", "0">>))
    ELSE IF 2 * num >= SpeedUnit * den
         THEN Append(filters, FormatSixDecimal(num, den))
         ELSE filters

\* build_atempo_filter with the single stage written to six decimals
build_atempo_filter_six_decimals(s) ==
    IF SpeedUnit <= 2 * s /\ s <= 2 * SpeedUnit
    THEN <<FormatSixDecimal(s, 1)>>
    ELSE ReduceChain(s, 1, <<>>)

\* the list of stages; the code returns them joined by ",", each after "atempo="
build_atempo_filter(s) ==
    IF SpeedUnit <= 2 * s /\ s <= 2 * SpeedUnit
    THEN <<Repr(s)>>
    ELSE ReduceChain(s, 1, <<>>)

\* the factor a stage text denotes, in speed units
StageValue(text) == ParseDecimal(text)

----------------------------------------------------------------------------
(* Values of the variables a specification does not use.                   *)

PlanIdle == filter_chain = <<>>

BatchIdle ==
    /\ audio_files = <<>>
    /\ ffmpeg_path = "none"
    /\ has_progress = FALSE
    /\ has_cancel = FALSE
    /\ unique_files = <<>>
    /\ idx = 0
    /\ successful = <<>>
    /\ failed = <<>>
    /\ total_processed = 0
    /\ cancelChecks = <<>>
    /\ progressLog = <<>>
    /\ attempts = <<>>
    /\ invocations = <<>>

RewriteIdle ==
    /\ notes = <<>>
    /\ card_ids = <<>>
    /\ detected = <<>>
    /\ skip_processed = FALSE
    /\ card_updates = <<>>
    /\ undo_record = <<>>
    /\ todo = <<>>
    /\ updateLog = <<>>
    /\ preCommit = <<>>
    /\ preRevert = <<>>
    /\ reverts = 0
    /\ undo_applied = FALSE
    /\ undo_enabled = FALSE
    /\ undoCalls = 0

NameIdle ==
    /\ given_name = <<>>
    /\ new_speed = 0
    /\ renamed = <<>>
    /\ renamed_again = <<>>
    /\ renamed_direct = <<>>

SessionIdle ==
    /\ temp_dir = "none"
    /\ temp_files = {}
    /\ preview_files = {}
    /\ ok_enabled = FALSE
    /\ dialog_result = "none"
    /\ previews = 0
    /\ cancelled = 0

----------------------------------------------------------------------------
(* SpecPlan: build_atempo_filter applied to one speed.                     *)

Tenths(t) == t * (SpeedUnit \div 10)

\* the speeds the planner is given: every tenth up to MaxTenths, values next
\* to the edges of the operating window, and values of two and of seven decimals
PlanSpeeds ==
    {Tenths(t) : t \in 1..MaxTenths}
      \cup {5 * (SpeedUnit \div 10) - 1, 2 * SpeedUnit + 1, 2 * SpeedUnit + 5,
            4 * SpeedUnit + 1, 125 * (SpeedUnit \div 100), SpeedUnit + 2345678}

InitPlan ==
    /\ pc = "plan"
    /\ speed \in PlanSpeeds
    /\ mediaDir = <<>>
    /\ PlanIdle /\ BatchIdle /\ RewriteIdle /\ NameIdle /\ SessionIdle

Plan ==
    /\ pc = "plan"
    /\ filter_chain' = build_atempo_filter(speed)
    /\ pc' = "planned"
    /\ UNCHANGED <<nameVars, sessionVars>>
    /\ UNCHANGED <<speed, mediaDir, batchVars, rewriteVars>>

NextPlan == Plan

SpecPlan == InitPlan /\ [][NextPlan]_vars

----------------------------------------------------------------------------
(* src/audio/processor.py: the transcode executor and the batch            *)

\* smallest size in bytes of an output file that process_audio_ffmpeg accepts
MinOutputSize == 100

\* ProcessingResult
ProcessingResult(success, original_file, new_file, error_message) ==
    [success |-> success, original_file |-> original_file,
     new_file |-> new_file, error_message |-> error_message]

\* os.path.exists(os.path.join(media_dir, name))
Exists(dir, name) == name \in DOMAIN dir

\* the directory dir once a file name of the given size has been written
WriteFile(dir, name, size) ==
    [n \in DOMAIN dir \cup {name} |-> IF n = name THEN size ELSE dir[n]]

\* What one run of the external transcoder can do: how it ends, and whether it
\* leaves an output file behind, of which size.
Outcomes ==
    [exit : {"zero"}, writes : {TRUE},
     size : {MinOutputSize - 1, MinOutputSize, MinOutputSize + 1}]
      \cup [exit : {"nonzero"}, writes : {TRUE}, size : {MinOutputSize + 1}]
      \cup [exit : {"zero", "nonzero", "timeout", "oserror"}, writes : {FALSE}, size : {0}]

\* the directory after subprocess.run(cmd) ended as o says; "-y" overwrites
RunTranscoder(dir, output_path, o) ==
    IF o.writes THEN WriteFile(dir, output_path, o.size) ELSE dir

\* process_audio_ffmpeg without the verification of the output file
process_audio_ffmpeg_unverified(after, output_path, o) ==
    IF o.exit = "timeout" THEN <<FALSE, "FFmpeg timed out">>
    ELSE IF o.exit = "oserror" THEN <<FALSE, "Error running FFmpeg">>
    ELSE IF o.exit # "zero" THEN <<FALSE, "FFmpeg error">>
    ELSE <<TRUE, NoMessage>>

\* process_audio_ffmpeg: <<success, error_message>> once the run ended as o says
\* and left the directory after
process_audio_ffmpeg(after, output_path, o) ==
    IF o.exit = "timeout" THEN <<FALSE, "FFmpeg timed out">>
    ELSE IF o.exit = "oserror" THEN <<FALSE, "Error running FFmpeg">>
    ELSE IF o.exit # "zero" THEN <<FALSE, "FFmpeg error">>
    ELSE IF ~Exists(after, output_path) \/ after[output_path] < MinOutputSize
         THEN <<FALSE, "Output file not created or too small">>
         ELSE <<TRUE, NoMessage>>

\* one run of the transcoder, as the logs keep it: the command, whether the
\* output path existed when it started, how the run ended, and what
\* process_audio_ffmpeg returned for it
Invocation(dir, input, output, s, o, ran) ==
    [input |-> input, output |-> output,
     filter |-> build_atempo_filter(s),
     output_existed |-> Exists(dir, output),
     outcome |-> o,
     returned |-> ran]

\* process_audio_file without the check that the output already exists
process_audio_file_unchecked(dir, filename, s, o) ==
    LET new_filename == generate_speed_filename(filename, s)
        after == RunTranscoder(dir, new_filename, o)
        ran == process_audio_ffmpeg(after, new_filename, o)
    IN  IF ~Exists(dir, filename)
        THEN [result |-> ProcessingResult(FALSE, filename, None, "File not found"),
              dir |-> dir, runs |-> <<>>]
        ELSE [result |-> IF ran[1]
                         THEN ProcessingResult(TRUE, filename, new_filename, NoMessage)
                         ELSE ProcessingResult(FALSE, filename, None, ran[2]),
              dir |-> after,
              runs |-> <<Invocation(dir, filename, new_filename, s, o, ran)>>]

\* process_audio_file whose check of the output only looks for the source name
process_audio_file_same_name_only(dir, filename, s, o) ==
    LET new_filename == generate_speed_filename(filename, s)
        after == RunTranscoder(dir, new_filename, o)
        ran == process_audio_ffmpeg(after, new_filename, o)
    IN  IF ~Exists(dir, filename)
        THEN [result |-> ProcessingResult(FALSE, filename, None, "File not found"),
              dir |-> dir, runs |-> <<>>]
        ELSE IF new_filename = filename
        THEN [result |-> ProcessingResult(TRUE, filename, new_filename, NoMessage),
              dir |-> dir, runs |-> <<>>]
        ELSE [result |-> IF ran[1]
                         THEN ProcessingResult(TRUE, filename, new_filename, NoMessage)
                         ELSE ProcessingResult(FALSE, filename, None, ran[2]),
              dir |-> after,
              runs |-> <<Invocation(dir, filename, new_filename, s, o, ran)>>]

\* process_audio_file on the directory dir, the transcoder (if run) ending as o:
\* the result, the directory after, and the transcoder runs made
process_audio_file(dir, filename, s, o) ==
    LET new_filename == generate_speed_filename(filename, s)
        after == RunTranscoder(dir, new_filename, o)
        ran == process_audio_ffmpeg(after, new_filename, o)
    IN  IF ~Exists(dir, filename)
        THEN [result |-> ProcessingResult(FALSE, filename, None, "File not found"),
              dir |-> dir, runs |-> <<>>]
        ELSE IF Exists(dir, new_filename)
        THEN [result |-> ProcessingResult(TRUE, filename, new_filename, NoMessage),
              dir |-> dir, runs |-> <<>>]
        ELSE [result |-> IF ran[1]
                         THEN ProcessingResult(TRUE, filename, new_filename, NoMessage)
                         ELSE ProcessingResult(FALSE, filename, None, ran[2]),
              dir |-> after,
              runs |-> <<Invocation(dir, filename, new_filename, s, o, ran)>>]

\* the list successful after the result of one item
AppendSuccessful(results, result) ==
    IF result.success THEN Append(results, result) ELSE results

\* AppendFailed with the failure of an item swallowed
AppendFailedDropped(results, result) == results

\* the list failed after the result of one item
AppendFailed(results, result) ==
    IF result.success THEN results ELSE Append(results, result)

\* Deduplicate without the membership test: every candidate is kept
DeduplicateNone(candidates, seen) == seen \o candidates

\* Deduplicate with a repeated file name moved to the end of the keys
RECURSIVE DeduplicateLastSeen(_, _)
DeduplicateLastSeen(candidates, seen) ==
    IF Len(candidates) = 0 THEN seen
    ELSE DeduplicateLastSeen(Tail(candidates),
                             Append(SelectSeq(seen, LAMBDA x : x # candidates[1]),
                                    candidates[1]))

\* the keys of the dict unique_files: the file names of candidates in first-seen order
RECURSIVE Deduplicate(_, _)
Deduplicate(candidates, seen) ==
    IF Len(candidates) = 0 THEN seen
    ELSE Deduplicate(Tail(candidates),
                     IF candidates[1] \in Range(seen) THEN seen
                     ELSE Append(seen, candidates[1]))

\* the failed list of the early return: one entry per candidate
AllFailed(candidates) ==
    [i \in 1..Len(candidates) |->
        ProcessingResult(FALSE, candidates[i], None, "FFmpeg not found")]

\* find_ffmpeg() found nothing: every candidate is returned as failed
BatchNoTranscoder ==
    /\ pc = "batch"
    /\ ffmpeg_path = "none"
    /\ successful' = <<>>
    /\ failed' = AllFailed(audio_files)
    /\ total_processed' = 0
    /\ pc' = "done"
    /\ UNCHANGED <<nameVars, sessionVars>>
    /\ UNCHANGED <<speed, mediaDir, planVars, rewriteVars, audio_files, ffmpeg_path,
                   has_progress, has_cancel, unique_files, idx, cancelChecks,
                   progressLog, attempts, invocations>>

\* the transcoder is resolved: build unique_files
BatchDeduplicate ==
    /\ pc = "batch"
    /\ ffmpeg_path # "none"
    /\ unique_files' = Deduplicate(audio_files, <<>>)
    /\ idx' = 0
    /\ pc' = "loop"
    /\ UNCHANGED <<nameVars, sessionVars>>
    /\ UNCHANGED <<speed, mediaDir, planVars, rewriteVars, audio_files, ffmpeg_path,
                   has_progress, has_cancel, successful, failed, total_processed,
                   cancelChecks, progressLog, attempts, invocations>>

\* the return statement that ends process_audio_batch
BatchResult ==
    /\ total_processed' = Len(successful) + Len(failed)
    /\ pc' = "done"

\* BatchCancel with the items not yet started listed as failed
BatchCancelMarksRest ==
    /\ pc = "loop"
    /\ idx < Len(unique_files)
    /\ has_cancel
    /\ cancelChecks' = Append(cancelChecks, TRUE)
    /\ failed' = failed \o [i \in 1..(Len(unique_files) - idx) |->
                              ProcessingResult(FALSE, unique_files[idx + i], None, "Cancelled")]
    /\ total_processed' = Len(successful) + Len(failed')
    /\ pc' = "done"
    /\ UNCHANGED <<nameVars, sessionVars>>
    /\ UNCHANGED <<speed, mediaDir, planVars, rewriteVars, audio_files, ffmpeg_path,
                   has_progress, has_cancel, unique_files, idx, successful,
                   progressLog, attempts, invocations>>

\* cancel_check() returns True at the top of an iteration: break and return
BatchCancel ==
    /\ pc = "loop"
    /\ idx < Len(unique_files)
    /\ has_cancel
    /\ cancelChecks' = Append(cancelChecks, TRUE)
    /\ BatchResult
    /\ UNCHANGED <<nameVars, sessionVars>>
    /\ UNCHANGED <<speed, mediaDir, planVars, rewriteVars, audio_files, ffmpeg_path,
                   has_progress, has_cancel, unique_files, idx, successful, failed,
                   progressLog, attempts, invocations>>

\* one iteration of the loop that does not break: the cancel check, the
\* progress call, process_audio_file, and the append
BatchItem(o) ==
    /\ pc = "loop"
    /\ idx < Len(unique_files)
    /\ LET filename == unique_files[idx + 1]
           done == process_audio_file(mediaDir, filename, speed, o)
       IN  /\ cancelChecks' = IF has_cancel THEN Append(cancelChecks, FALSE)
                              ELSE cancelChecks
           /\ progressLog' = IF has_progress
                             THEN Append(progressLog,
                                         [current |-> idx + 1,
                                          total |-> Len(unique_files),
                                          filename |-> filename])
                             ELSE progressLog
           /\ attempts' = Append(attempts,
                                  [filename |-> filename,
                                   source_existed |-> Exists(mediaDir, filename),
                                   output_existed |->
                                       Exists(mediaDir, generate_speed_filename(filename, speed)),
                                   success |-> done.result.success,
                                   runs |-> Len(done.runs)])
           /\ invocations' = invocations \o done.runs
           /\ mediaDir' = done.dir
           /\ successful' = AppendSuccessful(successful, done.result)
           /\ failed' = AppendFailed(failed, done.result)
    /\ idx' = idx + 1
    /\ UNCHANGED <<nameVars, sessionVars>>
    /\ UNCHANGED <<pc, speed, planVars, rewriteVars, audio_files, ffmpeg_path,
                   has_progress, has_cancel, unique_files, total_processed>>

\* the loop is exhausted: return
BatchReturn ==
    /\ pc = "loop"
    /\ idx = Len(unique_files)
    /\ BatchResult
    /\ UNCHANGED <<nameVars, sessionVars>>
    /\ UNCHANGED <<speed, mediaDir, planVars, rewriteVars, audio_files, ffmpeg_path,
                   has_progress, has_cancel, unique_files, idx, successful, failed,
                   cancelChecks, progressLog, attempts, invocations>>

----------------------------------------------------------------------------
(* SpecBatch: process_audio_batch on a candidate list and a media directory *)

\* file names
NameA == <<"a", ".", "m", "p", "3">>
NameA12 == <<"a", "_", "1", ".", "2", "x", ".", "m", "p", "3">>
NameB == <<"b", ".", "m", "p", "3">>
NameB12 == <<"b", "_", "1", ".", "2", "x", ".", "m", "p", "3">>

\* the file names candidates carry
BatchFiles == {NameA, NameA12, NameB}

\* size of the files the media directory holds at the start
StoredSize == 10 * MinOutputSize

\* the media directories a run starts from: b.mp3, and any of the other names
InitialDirs ==
    {[n \in present \cup {NameB} |-> StoredSize] :
        present \in SUBSET {NameA, NameA12, NameB12}}

InitBatch ==
    /\ pc = "batch"
    /\ speed = Tenths(12)
    /\ mediaDir \in InitialDirs
    /\ audio_files \in SeqsUpTo(BatchFiles, MaxCandidates)
    /\ ffmpeg_path \in {"ffmpeg", "none"}
    /\ has_progress \in BOOLEAN
    /\ has_cancel \in BOOLEAN
    /\ unique_files = <<>>
    /\ idx = 0
    /\ successful = <<>>
    /\ failed = <<>>
    /\ total_processed = 0
    /\ cancelChecks = <<>>
    /\ progressLog = <<>>
    /\ attempts = <<>>
    /\ invocations = <<>>
    /\ PlanIdle /\ RewriteIdle /\ NameIdle /\ SessionIdle

NextBatch ==
    \/ BatchNoTranscoder
    \/ BatchDeduplicate
    \/ BatchCancel
    \/ \E o \in Outcomes : BatchItem(o)
    \/ BatchReturn

SpecBatch == InitBatch /\ [][NextBatch]_vars

----------------------------------------------------------------------------
(* src/audio/detector.py: detect_audio_in_cards                            *)

\* card.note().id: cards 1 and 2 are cards of note 1, card 3 of note 2
NoteOfCard(card_id) == IF card_id = 3 THEN 2 ELSE 1

\* AudioFile
AudioFile(filename, field_index, card_id, note_id) ==
    [filename |-> filename, field_index |-> field_index, card_id |-> card_id,
     note_id |-> note_id, original_tag |-> Tag(filename),
     is_processed |-> parse_speed_from_filename(filename) # None,
     original_speed |-> parse_speed_from_filename(filename)]

\* the loop over the tags of one field: an AudioFile per supported name
RECURSIVE FieldAudio(_, _, _, _)
FieldAudio(sound_tags, field_index, card_id, note_id) ==
    IF Len(sound_tags) = 0 THEN <<>>
    ELSE (IF is_supported_format(sound_tags[1])
          THEN <<AudioFile(sound_tags[1], field_index, card_id, note_id)>>
          ELSE <<>>)
         \o FieldAudio(Tail(sound_tags), field_index, card_id, note_id)

\* the loop over the fields of the note of one card, from field field_index on
\* (field indexes count from 0, as enumerate does)
RECURSIVE CardAudio(_, _, _, _)
CardAudio(fields, field_index, card_id, note_id) ==
    IF field_index >= Len(fields) THEN <<>>
    ELSE FieldAudio(extract_sound_tags(fields[field_index + 1]),
                    field_index, card_id, note_id)
         \o CardAudio(fields, field_index + 1, card_id, note_id)

\* the loop over the cards: the list audio_files
RECURSIVE DetectedFiles(_, _)
DetectedFiles(store, cards) ==
    IF Len(cards) = 0 THEN <<>>
    ELSE CardAudio(store[NoteOfCard(cards[1])], 0, cards[1], NoteOfCard(cards[1]))
         \o DetectedFiles(store, Tail(cards))

\* AudioDetectionResult
detect_audio_in_cards(store, cards) ==
    LET files == DetectedFiles(store, cards)
        cards_with_audio == {files[i].card_id : i \in 1..Len(files)}
    IN  [audio_files |-> files,
         cards_with_audio |-> Cardinality(cards_with_audio),
         cards_without_audio |-> Len(cards) - Cardinality(cards_with_audio),
         total_audio_files |-> Len(files),
         already_processed_count |->
             Cardinality({i \in 1..Len(files) : files[i].is_processed})]

----------------------------------------------------------------------------
(* src/core/card_processor.py                                              *)

\* CardUpdate
CardUpdate(af, new_filename) ==
    [card_id |-> af.card_id, note_id |-> af.note_id, field_index |-> af.field_index,
     old_tag |-> af.original_tag, new_tag |-> Tag(new_filename)]

\* build_card_updates: an update per candidate whose file name is a key of
\* file_mapping, in the order of the candidates
RECURSIVE build_card_updates(_, _)
build_card_updates(candidates, file_mapping) ==
    IF Len(candidates) = 0 THEN <<>>
    ELSE (IF candidates[1].filename \in DOMAIN file_mapping
          THEN <<CardUpdate(candidates[1], file_mapping[candidates[1].filename])>>
          ELSE <<>>)
         \o build_card_updates(Tail(candidates), file_mapping)

\* the keys of the dict note_updates, in insertion order
RECURSIVE NoteOrder(_, _)
NoteOrder(updates, seen) ==
    IF Len(updates) = 0 THEN seen
    ELSE NoteOrder(Tail(updates),
                   IF updates[1].note_id \in Range(seen) THEN seen
                   ELSE Append(seen, updates[1].note_id))

\* note_updates[note_id]: the updates of one note, in their order
RECURSIVE UpdatesOfNote(_, _)
UpdatesOfNote(updates, note_id) ==
    IF Len(updates) = 0 THEN <<>>
    ELSE (IF updates[1].note_id = note_id THEN <<updates[1]>> ELSE <<>>)
         \o UpdatesOfNote(Tail(updates), note_id)

\* ApplyEdits with every replacement reading the field as it was loaded
RECURSIVE ApplyEditsFromLoaded(_, _)
ApplyEditsFromLoaded(fields, updates) ==
    IF Len(updates) = 0 THEN fields
    ELSE LET u == updates[Len(updates)]
         IN  [fields EXCEPT ![u.field_index + 1] = Replace(@, u.old_tag, u.new_tag)]

\* the inner loop of apply_card_updates on the fields of the loaded note: each
\* replacement reads the field as the previous one left it
RECURSIVE ApplyEdits(_, _)
ApplyEdits(fields, updates) ==
    IF Len(updates) = 0 THEN fields
    ELSE LET u == updates[1]
             old_content == fields[u.field_index + 1]
             new_content == Replace(old_content, u.old_tag, u.new_tag)
         IN  ApplyEdits([fields EXCEPT ![u.field_index + 1] = new_content],
                        Tail(updates))

\* the inner loop of revert_card_updates: the same swap in the other direction
RECURSIVE RevertEdits(_, _)
RevertEdits(fields, updates) ==
    IF Len(updates) = 0 THEN fields
    ELSE LET u == updates[1]
             old_content == fields[u.field_index + 1]
             new_content == Replace(old_content, u.new_tag, u.old_tag)
         IN  RevertEdits([fields EXCEPT ![u.field_index + 1] = new_content],
                         Tail(updates))

\* tag[7:-1]: the file name inside a tag
TagFilename(tag) == SubSeq(tag, 8, Len(tag) - 1)

\* the dict file_mapping of apply_card_updates after the given updates
RECURSIVE TrackFiles(_, _)
TrackFiles(file_mapping, updates) ==
    IF Len(updates) = 0 THEN file_mapping
    ELSE LET old_filename == TagFilename(updates[1].old_tag)
             new_filename == TagFilename(updates[1].new_tag)
         IN  TrackFiles([f \in DOMAIN file_mapping \cup {old_filename} |->
                            IF f = old_filename THEN new_filename ELSE file_mapping[f]],
                        Tail(updates))

\* the candidates the dialog hands on: all detected files, or those not yet
\* processed when the skip box is checked
RECURSIVE FilesToProcess(_, _)
FilesToProcess(files, skip) ==
    IF Len(files) = 0 THEN <<>>
    ELSE (IF skip /\ files[1].is_processed THEN <<>> ELSE <<files[1]>>)
         \o FilesToProcess(Tail(files), skip)

\* detect_audio_in_cards(card_ids)
Detect ==
    /\ pc = "rewrite"
    /\ detected' = detect_audio_in_cards(notes, card_ids)
    /\ pc' = "detected"
    /\ UNCHANGED <<nameVars, sessionVars>>
    /\ UNCHANGED <<speed, mediaDir, planVars, batchVars, notes, card_ids,
                   skip_processed, card_updates, undo_record, todo, updateLog,
                   preCommit, preRevert, reverts, undo_applied, undo_enabled,
                   undoCalls>>

\* The batch succeeded on the file names in done (its produced files are in the
\* media directory), and build_card_updates runs on the resulting file_mapping.
Build(done) ==
    /\ pc = "detected"
    /\ LET candidates == FilesToProcess(detected.audio_files, skip_processed)
           file_mapping == [f \in done |-> generate_speed_filename(f, speed)]
       IN  /\ done # {}
           /\ done \subseteq {candidates[i].filename : i \in 1..Len(candidates)}
           /\ \A f \in done : Exists(mediaDir, f)
           /\ mediaDir' = [n \in DOMAIN mediaDir \cup {file_mapping[f] : f \in done} |->
                              IF n \in DOMAIN mediaDir THEN mediaDir[n]
                              ELSE MinOutputSize]
           /\ card_updates' = build_card_updates(candidates, file_mapping)
    /\ pc' = "built"
    /\ UNCHANGED <<nameVars, sessionVars>>
    /\ UNCHANGED <<speed, planVars, batchVars, notes, card_ids, detected,
                   skip_processed, undo_record, todo, updateLog, preCommit,
                   preRevert, reverts, undo_applied, undo_enabled, undoCalls>>

\* apply_card_updates is entered: the updates are grouped by note
ApplyEnter ==
    /\ pc = "built"
    /\ todo' = NoteOrder(card_updates, <<>>)
    /\ undo_record' = [card_updates |-> <<>>, processed_files |-> <<>>]
    /\ updateLog' = <<>>
    /\ preCommit' = notes
    /\ pc' = "commit"
    /\ UNCHANGED <<nameVars, sessionVars>>
    /\ UNCHANGED <<speed, mediaDir, planVars, batchVars, notes, card_ids, detected,
                   skip_processed, card_updates, preRevert, reverts, undo_applied,
                   undo_enabled, undoCalls>>

\* one iteration of the loop over the notes in apply_card_updates: get_note,
\* the edits of the note, update_note
CommitNote ==
    /\ pc = "commit"
    /\ Len(todo) > 0
    /\ LET note_id == todo[1]
           note_update_list == UpdatesOfNote(card_updates, note_id)
           fields == ApplyEdits(notes[note_id], note_update_list)
       IN  /\ notes' = [notes EXCEPT ![note_id] = fields]
           /\ updateLog' = Append(updateLog, [note_id |-> note_id, fields |-> fields])
           /\ undo_record' =
                 [card_updates |-> undo_record.card_updates \o note_update_list,
                  processed_files |->
                      TrackFiles(undo_record.processed_files, note_update_list)]
    /\ todo' = Tail(todo)
    /\ UNCHANGED <<nameVars, sessionVars>>
    /\ UNCHANGED <<pc, speed, mediaDir, planVars, batchVars, card_ids, detected,
                   skip_processed, card_updates, preCommit, preRevert, reverts,
                   undo_applied, undo_enabled, undoCalls>>

\* apply_card_updates returns the UndoRecord, and the completion dialog opens
\* on it (CompletionDialog.__init__)
ApplyReturn ==
    /\ pc = "commit"
    /\ Len(todo) = 0
    /\ undo_applied' = FALSE
    /\ undo_enabled' = TRUE
    /\ pc' = "dialog"
    /\ UNCHANGED <<nameVars, sessionVars>>
    /\ UNCHANGED <<speed, mediaDir, planVars, batchVars, notes, card_ids, detected,
                   skip_processed, card_updates, undo_record, todo, updateLog,
                   preCommit, preRevert, reverts, undoCalls>>

\* revert_card_updates is entered: the ledger is grouped by note
RevertEnter ==
    /\ todo' = NoteOrder(undo_record.card_updates, <<>>)
    /\ updateLog' = <<>>
    /\ preRevert' = notes

\* _on_undo, the user answering No: nothing happens
OnUndoDeclined ==
    /\ pc \in {"dialog", "reverted"}
    /\ undo_enabled
    /\ UNCHANGED vars

\* _on_undo, the user answering Yes: revert_card_updates(self.undo_record)
OnUndoConfirmed ==
    /\ pc \in {"dialog", "reverted"}
    /\ undo_enabled
    /\ undoCalls < MaxReverts
    /\ undoCalls' = undoCalls + 1
    /\ RevertEnter
    /\ pc' = "undo"
    /\ UNCHANGED <<nameVars, sessionVars>>
    /\ UNCHANGED <<speed, mediaDir, planVars, batchVars, notes, card_ids, detected,
                   skip_processed, card_updates, undo_record, preCommit, reverts,
                   undo_applied, undo_enabled>>

\* revert_card_updates called once more on the same ledger
RevertAgain ==
    /\ pc = "reverted"
    /\ reverts < MaxReverts
    /\ RevertEnter
    /\ pc' = "revert"
    /\ UNCHANGED <<nameVars, sessionVars>>
    /\ UNCHANGED <<speed, mediaDir, planVars, batchVars, notes, card_ids, detected,
                   skip_processed, card_updates, undo_record, preCommit, reverts,
                   undo_applied, undo_enabled, undoCalls>>

\* RevertNote that also removes the produced files of the ledger
RevertNoteDeletesFiles ==
    /\ pc \in {"undo", "revert"}
    /\ Len(todo) > 0
    /\ LET note_id == todo[1]
           updates == UpdatesOfNote(undo_record.card_updates, note_id)
           fields == RevertEdits(notes[note_id], updates)
           produced == {undo_record.processed_files[f] :
                           f \in DOMAIN undo_record.processed_files}
       IN  /\ notes' = [notes EXCEPT ![note_id] = fields]
           /\ updateLog' = Append(updateLog, [note_id |-> note_id, fields |-> fields])
           /\ mediaDir' = [n \in DOMAIN mediaDir \ produced |-> mediaDir[n]]
    /\ todo' = Tail(todo)
    /\ UNCHANGED <<nameVars, sessionVars>>
    /\ UNCHANGED <<pc, speed, planVars, batchVars, card_ids, detected,
                   skip_processed, card_updates, undo_record, preCommit, preRevert,
                   reverts, undo_applied, undo_enabled, undoCalls>>

\* one iteration of the loop over the notes in revert_card_updates
RevertNote ==
    /\ pc \in {"undo", "revert"}
    /\ Len(todo) > 0
    /\ LET note_id == todo[1]
           updates == UpdatesOfNote(undo_record.card_updates, note_id)
           fields == RevertEdits(notes[note_id], updates)
       IN  /\ notes' = [notes EXCEPT ![note_id] = fields]
           /\ updateLog' = Append(updateLog, [note_id |-> note_id, fields |-> fields])
    /\ todo' = Tail(todo)
    /\ UNCHANGED <<nameVars, sessionVars>>
    /\ UNCHANGED <<pc, speed, mediaDir, planVars, batchVars, card_ids, detected,
                   skip_processed, card_updates, undo_record, preCommit, preRevert,
                   reverts, undo_applied, undo_enabled, undoCalls>>

\* revert_card_updates returned to _on_undo: the button is disabled
OnUndoDone ==
    /\ pc = "undo"
    /\ Len(todo) = 0
    /\ reverts' = reverts + 1
    /\ undo_applied' = TRUE
    /\ undo_enabled' = FALSE
    /\ pc' = "reverted"
    /\ UNCHANGED <<nameVars, sessionVars>>
    /\ UNCHANGED <<speed, mediaDir, planVars, batchVars, notes, card_ids, detected,
                   skip_processed, card_updates, undo_record, todo, updateLog,
                   preCommit, preRevert, undoCalls>>

\* revert_card_updates returned to a direct caller
RevertReturn ==
    /\ pc = "revert"
    /\ Len(todo) = 0
    /\ reverts' = reverts + 1
    /\ pc' = "reverted"
    /\ UNCHANGED <<nameVars, sessionVars>>
    /\ UNCHANGED <<speed, mediaDir, planVars, batchVars, notes, card_ids, detected,
                   skip_processed, card_updates, undo_record, todo, updateLog,
                   preCommit, preRevert, undo_applied, undo_enabled, undoCalls>>

----------------------------------------------------------------------------
(* SpecRewrite: detection, commit and revert on a record store             *)

NameA15 == <<"a", "_", "1", ".", "5", "x", ".", "m", "p", "3">>
NameTxt == <<"c", ".", "t", "x", "t">>

\* texts of the first field of note 1
FieldTexts ==
    { <<"x">> \o Tag(NameA),
      Tag(NameA) \o <<"y">> \o Tag(NameA),
      Tag(NameA) \o Tag(NameA12),
      Tag(NameA) \o Tag(NameA15),
      Tag(NameA) \o Tag(NameB),
      Tag(NameTxt) \o <<"z">> }

\* texts of the second field of note 1 and of the field of note 2
OtherTexts == { Tag(NameB), <<"y">>, Tag(NameA12) }

\* the cards of the collection
Cards == {1, 2, 3}

InitRewrite ==
    /\ pc = "rewrite"
    /\ speed = Tenths(12)
    /\ mediaDir = [n \in {NameA, NameA12, NameA15, NameB} |-> StoredSize]
    /\ notes \in {<< <<f0, f1>>, <<g0>> >> :
                     f0 \in FieldTexts, f1 \in OtherTexts, g0 \in OtherTexts}
    /\ card_ids \in SeqsUpTo(Cards, MaxCards)
    /\ skip_processed \in BOOLEAN
    /\ detected = <<>>
    /\ card_updates = <<>>
    /\ undo_record = <<>>
    /\ todo = <<>>
    /\ updateLog = <<>>
    /\ preCommit = <<>>
    /\ preRevert = <<>>
    /\ reverts = 0
    /\ undo_applied = FALSE
    /\ undo_enabled = FALSE
    /\ undoCalls = 0
    /\ PlanIdle /\ BatchIdle /\ NameIdle /\ SessionIdle

NextRewrite ==
    \/ Detect
    \/ \E done \in SUBSET {NameA, NameA12, NameA15, NameB} : Build(done)
    \/ ApplyEnter
    \/ CommitNote
    \/ ApplyReturn
    \/ OnUndoDeclined
    \/ OnUndoConfirmed
    \/ RevertAgain
    \/ RevertNote
    \/ OnUndoDone
    \/ RevertReturn

SpecRewrite == InitRewrite /\ [][NextRewrite]_vars

----------------------------------------------------------------------------
(* SpecName: generate_speed_filename applied to a file name, applied again *)
(* to its result, and the detection of the produced name                   *)

NameUpper == <<"A", ".", "M", "P", "3">>
NameTwoSuffixes ==
    <<"a", "_", "1", ".", "5", "x", "_", "1", ".", "2", "x", ".", "m", "p", "3">>
NameDotted == <<"a", ".", "b", ".", "w", "a", "v">>
NameBareSuffix == <<"_", "1", ".", "2", "x", ".", "o", "g", "g">>
NameNoPoint == <<"a", "_", "1", "2", "x", ".", "m", "4", "a">>

\* the file names generate_speed_filename is given
Filenames ==
    {NameA, NameA12, NameUpper, NameTwoSuffixes, NameDotted, NameBareSuffix,
     NameNoPoint, NameTxt}

\* the speeds generate_speed_filename is given: 0.04, 0.5, 1.2, 1.25, 1.26, 1.5,
\* 10.0 and 12.34
Rates ==
    {4 * (SpeedUnit \div 100), Tenths(5), Tenths(12), 125 * (SpeedUnit \div 100),
     126 * (SpeedUnit \div 100), Tenths(15), Tenths(100), 1234 * (SpeedUnit \div 100)}

InitName ==
    /\ pc = "name"
    /\ given_name \in Filenames
    /\ speed \in Rates
    /\ new_speed \in Rates
    /\ renamed = <<>>
    /\ renamed_again = <<>>
    /\ renamed_direct = <<>>
    /\ mediaDir = <<>>
    /\ PlanIdle /\ BatchIdle /\ RewriteIdle /\ SessionIdle

\* generate_speed_filename(given_name, speed)
Rename ==
    /\ pc = "name"
    /\ renamed' = generate_speed_filename(given_name, speed)
    /\ pc' = "renamed"
    /\ UNCHANGED sessionVars
    /\ UNCHANGED <<speed, mediaDir, planVars, batchVars, rewriteVars, given_name,
                   new_speed, renamed_again, renamed_direct>>

\* generate_speed_filename at the second speed, on the produced name and on the
\* name first given
RenameAgain ==
    /\ pc = "renamed"
    /\ renamed_again' = generate_speed_filename(renamed, new_speed)
    /\ renamed_direct' = generate_speed_filename(given_name, new_speed)
    /\ pc' = "renamed_again"
    /\ UNCHANGED sessionVars
    /\ UNCHANGED <<speed, mediaDir, planVars, batchVars, rewriteVars, given_name,
                   new_speed, renamed>>

\* detect_audio_in_cards on one card whose note has one field, the tag of the
\* produced name
DetectRenamed ==
    /\ pc = "renamed_again"
    /\ notes' = << <<Tag(renamed)>> >>
    /\ card_ids' = <<1>>
    /\ detected' = detect_audio_in_cards(notes', card_ids')
    /\ pc' = "name_detected"
    /\ UNCHANGED <<nameVars, sessionVars>>
    /\ UNCHANGED <<speed, mediaDir, planVars, batchVars, skip_processed,
                   card_updates, undo_record, todo, updateLog, preCommit,
                   preRevert, reverts, undo_applied, undo_enabled, undoCalls>>

NextName ==
    \/ Rename
    \/ RenameAgain
    \/ DetectRenamed

SpecName == InitName /\ [][NextName]_vars

----------------------------------------------------------------------------
(* src/ui/speed_dialog.py: one session of SpeedUpAudioDialog               *)

\* the ends of the speed slider, in tenths
SliderMinimum == 10
SliderMaximum == 30

\* the values the user moves the slider to: its first value and its upper end
SliderValues == {12, SliderMaximum}

\* the loop over the notes of apply_card_updates, on the whole store
RECURSIVE CommitAll(_, _, _)
CommitAll(store, updates, order) ==
    IF Len(order) = 0 THEN store
    ELSE CommitAll([store EXCEPT
                       ![order[1]] = ApplyEdits(@, UpdatesOfNote(updates, order[1]))],
                   updates, Tail(order))

\* the loop over the notes of revert_card_updates, on the whole store
RECURSIVE RevertAll(_, _, _)
RevertAll(store, updates, order) ==
    IF Len(order) = 0 THEN store
    ELSE RevertAll([store EXCEPT
                       ![order[1]] = RevertEdits(@, UpdatesOfNote(updates, order[1]))],
                   updates, Tail(order))

\* applied_updates: the updates in the order apply_card_updates applied them
RECURSIVE AppliedUpdates(_, _)
AppliedUpdates(updates, order) ==
    IF Len(order) = 0 THEN <<>>
    ELSE UpdatesOfNote(updates, order[1]) \o AppliedUpdates(updates, Tail(order))

\* the file names of the candidates of _on_ok
CandidateNames ==
    LET candidates == FilesToProcess(detected.audio_files, skip_processed)
    IN  {candidates[i].filename : i \in 1..Len(candidates)}

\* the media directory once the batch has produced the files of done
WithProduced(dir, done) ==
    [n \in DOMAIN dir \cup {generate_speed_filename(f, speed) : f \in done} |->
        IF n \in DOMAIN dir THEN dir[n] ELSE MinOutputSize]

\* __init__ (mkdtemp, current_speed = 1.2, _detect_audio) and dialog.exec().
\* With no audio found _detect_audio calls reject() before exec() has shown
\* the dialog: the session ends there, or the dialog is shown with OK disabled.
OpenDialog ==
    /\ pc = "browser"
    /\ temp_dir' = "present"
    /\ temp_files' = {}
    /\ preview_files' = {}
    /\ speed' = Tenths(12)
    /\ detected' = detect_audio_in_cards(notes, card_ids)
    /\ IF detected'.total_audio_files = 0
       THEN /\ ok_enabled' = FALSE
            /\ skip_processed' = FALSE
            /\ dialog_result' = "rejected"
            /\ pc' \in {"open", "ended"}
       ELSE /\ ok_enabled' = TRUE
            /\ skip_processed' = (detected'.already_processed_count > 0)
            /\ dialog_result' = "none"
            /\ pc' = "open"
    /\ UNCHANGED <<mediaDir, planVars, batchVars, nameVars, previews, cancelled,
                   notes, card_ids, card_updates, undo_record, todo, updateLog, preCommit,
                   preRevert, reverts, undo_applied, undo_enabled, undoCalls>>

\* the user checks or unchecks "Skip already processed files"
ToggleSkip ==
    /\ pc = "open"
    /\ detected.already_processed_count > 0
    /\ skip_processed' = ~skip_processed
    /\ UNCHANGED <<pc, speed, mediaDir, planVars, batchVars, nameVars, sessionVars,
                   notes, card_ids, detected, card_updates, undo_record, todo,
                   updateLog, preCommit, preRevert, reverts, undo_applied,
                   undo_enabled, undoCalls>>

\* _on_speed_changed(value)
OnSpeedChanged(value) ==
    /\ pc = "open"
    /\ value \in SliderMinimum..SliderMaximum
    /\ Tenths(value) # speed
    /\ speed' = Tenths(value)
    /\ preview_files' = {}
    /\ UNCHANGED <<pc, mediaDir, planVars, batchVars, rewriteVars, nameVars,
                   temp_dir, temp_files, ok_enabled, dialog_result, previews,
                   cancelled>>

\* _generate_preview: without a transcoder a warning only; otherwise
\* generate_preview_file for the rows of the table, which writes a preview file
\* in temp_dir and returns its path for the files of made
GeneratePreview(made) ==
    /\ pc = "open"
    /\ ok_enabled
    /\ previews < MaxPreviews
    /\ previews' = previews + 1
    /\ made \subseteq
          {f \in {detected.audio_files[i].filename :
                     i \in 1..Len(detected.audio_files)} : Exists(mediaDir, f)}
    /\ ffmpeg_path = "none" => made = {}
    /\ temp_files' = temp_files \cup {<<speed, f>> : f \in made}
    /\ preview_files' = preview_files \cup made
    /\ UNCHANGED <<pc, speed, mediaDir, planVars, batchVars, rewriteVars, nameVars,
                   temp_dir, ok_enabled, dialog_result, cancelled>>

\* the Cancel button: reject()
OnCancel ==
    /\ pc = "open"
    /\ dialog_result' = "rejected"
    /\ pc' = "ended"
    /\ UNCHANGED <<speed, mediaDir, planVars, batchVars, rewriteVars, nameVars,
                   temp_dir, temp_files, preview_files, ok_enabled, previews,
                   cancelled>>

\* the window is closed: closeEvent removes temp_dir, and the dialog is rejected
CloseEvent ==
    /\ pc = "open"
    /\ temp_dir' = "removed"
    /\ temp_files' = {}
    /\ dialog_result' = "rejected"
    /\ pc' = "ended"
    /\ UNCHANGED <<speed, mediaDir, planVars, batchVars, rewriteVars, nameVars,
                   preview_files, ok_enabled, previews, cancelled>>

\* _on_ok that returns early: no file is left after filtering, or the user
\* answers No to the confirmation
OnOkReturns ==
    /\ pc = "open"
    /\ ok_enabled
    /\ UNCHANGED vars

\* _on_ok with the batch cancelled, after it produced the files of done: a
\* warning, and the dialog stays open
OnOkCancelled(done) ==
    /\ pc = "open"
    /\ ok_enabled
    /\ CandidateNames # {}
    /\ ffmpeg_path # "none"
    /\ done \subseteq {f \in CandidateNames : Exists(mediaDir, f)}
    /\ done # CandidateNames
    /\ cancelled < MaxCancelled
    /\ cancelled' = cancelled + 1
    /\ mediaDir' = WithProduced(mediaDir, done)
    /\ UNCHANGED <<pc, speed, planVars, batchVars, rewriteVars, nameVars, temp_dir,
                   temp_files, preview_files, ok_enabled, dialog_result, previews>>

\* _on_ok to its end: the batch succeeded on the files of done; with a
\* success the cards are updated and the completion dialog runs, where the
\* user may undo; then accept()
OnOkAccepted(done, undo) ==
    /\ pc = "open"
    /\ ok_enabled
    /\ CandidateNames # {}
    /\ done \subseteq {f \in CandidateNames : Exists(mediaDir, f)}
    /\ ffmpeg_path = "none" => done = {}
    /\ done = {} => ~undo
    /\ mediaDir' = WithProduced(mediaDir, done)
    /\ LET candidates == FilesToProcess(detected.audio_files, skip_processed)
           file_mapping == [f \in done |-> generate_speed_filename(f, speed)]
           updates == build_card_updates(candidates, file_mapping)
           order == NoteOrder(updates, <<>>)
           applied == AppliedUpdates(updates, order)
           committed == CommitAll(notes, updates, order)
       IN  IF done = {}
           THEN UNCHANGED <<notes, card_updates, undo_record, undo_applied>>
           ELSE /\ card_updates' = updates
                /\ undo_record' = [card_updates |-> applied,
                                   processed_files |-> TrackFiles(<<>>, applied)]
                /\ undo_applied' = undo
                /\ notes' = IF undo THEN RevertAll(committed, applied, order)
                            ELSE committed
    /\ dialog_result' = "accepted"
    /\ pc' = "ended"
    /\ UNCHANGED <<speed, planVars, batchVars, nameVars, temp_dir, temp_files,
                   preview_files, ok_enabled, previews, cancelled, card_ids, detected,
                   skip_processed, todo, updateLog, preCommit, preRevert, reverts,
                   undo_enabled, undoCalls>>

----------------------------------------------------------------------------
(* SpecSession: a session of the dialog, from the browser action to its end *)

\* the record stores a session runs on
SessionStores ==
    {<< <<f0, <<"y">> >>, <<Tag(NameB)>> >> :
        f0 \in {Tag(NameA) \o Tag(NameA12), <<"x">>}}

InitSession ==
    /\ pc = "browser"
    /\ speed = Tenths(12)
    /\ mediaDir = [n \in {NameA, NameA12, NameB} |-> StoredSize]
    /\ notes \in SessionStores
    /\ card_ids \in SeqsUpTo({1, 3}, MaxCards) \ {<<>>}
    /\ detected = <<>>
    /\ skip_processed = FALSE
    /\ card_updates = <<>>
    /\ undo_record = <<>>
    /\ todo = <<>>
    /\ updateLog = <<>>
    /\ preCommit = <<>>
    /\ preRevert = <<>>
    /\ reverts = 0
    /\ undo_applied = FALSE
    /\ undo_enabled = FALSE
    /\ undoCalls = 0
    /\ audio_files = <<>>
    /\ ffmpeg_path \in {"ffmpeg", "none"}
    /\ has_progress = FALSE
    /\ has_cancel = FALSE
    /\ unique_files = <<>>
    /\ idx = 0
    /\ successful = <<>>
    /\ failed = <<>>
    /\ total_processed = 0
    /\ cancelChecks = <<>>
    /\ progressLog = <<>>
    /\ attempts = <<>>
    /\ invocations = <<>>
    /\ PlanIdle /\ NameIdle /\ SessionIdle

NextSession ==
    \/ OpenDialog
    \/ ToggleSkip
    \/ \E value \in SliderValues : OnSpeedChanged(value)
    \/ \E made \in SUBSET {NameA, NameA12, NameB} : GeneratePreview(made)
    \/ OnCancel
    \/ CloseEvent
    \/ OnOkReturns
    \/ \E done \in SUBSET {NameA, NameA12, NameB} : OnOkCancelled(done)
    \/ \E done \in SUBSET {NameA, NameA12, NameB} :
          \E undo \in BOOLEAN : OnOkAccepted(done, undo)

SpecSession == InitSession /\ [][NextSession]_vars

----------------------------------------------------------------------------
(* Helpers of the claims.                                                  *)

\* no element occurs twice in s
NoDuplicates(s) == \A i, j \in 1..Len(s) : i # j => s[i] # s[j]

\* the source file names of a list of results, in order
OriginalFiles(results) == [i \in 1..Len(results) |-> results[i].original_file]

\* the file names of the calls of process_audio_file, in order
AttemptedFiles == [i \in 1..Len(attempts) |-> attempts[i].filename]

\* number of entries of s equal to x
Occurrences(s, x) == Cardinality({i \in 1..Len(s) : s[i] = x})

\* number of distinct file names among the candidates
UniqueCount == Cardinality(Range(audio_files))

\* cancel_check() has returned True
Cancelled == TRUE \in Range(cancelChecks)

\* the factors of the stages of the chain
ChainValues == [i \in 1..Len(filter_chain) |-> StageValue(filter_chain[i])]

----------------------------------------------------------------------------
(* Claims on process_audio_batch, under SpecBatch.                         *)

\* C1: with a resolved transcoder, each distinct file name is handed to
\* process_audio_file at most once however many candidates carry it, and occurs
\* at most once in the successful and failed lists taken together.
C1_EachFilenameOnce ==
    ffmpeg_path # "none" =>
        /\ NoDuplicates(AttemptedFiles)
        /\ NoDuplicates(OriginalFiles(successful \o failed))
        /\ Range(AttemptedFiles) \subseteq Range(audio_files)

\* C1 witness: a finished run over a list that repeats a file name, in which
\* two distinct names were attempted.
C1_Witness ==
    /\ pc = "done"
    /\ ffmpeg_path # "none"
    /\ ~Cancelled
    /\ Len(audio_files) > UniqueCount
    /\ Len(attempts) = 2
    /\ UniqueCount = 2

\* C2: when cancel_check() first returns True at the check before the (k+1)-th
\* unique item, the batch has stopped: the lists hold exactly the results of the
\* first k unique file names, only those k were attempted, no later item is in
\* failed, and total_processed is k, below the number of unique candidates.
C2_CancelStops ==
    (ffmpeg_path # "none" /\ Cancelled) =>
        LET k == Len(cancelChecks) - 1
            firstK == {unique_files[i] : i \in 1..k}
        IN  /\ pc = "done"
            /\ \A i \in 1..k : cancelChecks[i] = FALSE
            /\ AttemptedFiles = SubSeq(unique_files, 1, k)
            /\ Len(successful) + Len(failed) = k
            /\ Range(OriginalFiles(successful \o failed)) = firstK
            /\ total_processed = k
            /\ total_processed < Len(unique_files)
            /\ total_processed < Len(audio_files)

\* C2 witness: cancelled at the second check of a run over three unique names.
C2_Witness ==
    /\ pc = "done"
    /\ cancelChecks = <<FALSE, TRUE>>
    /\ Len(unique_files) = 3
    /\ total_processed = 1

\* C3 (as the specification states it): without a transcoder, a non-empty
\* candidate list yields no success, total_processed 0, and as many failures as
\* there are distinct file names, each with the reason "FFmpeg not found".
C3_FailuresPerUniqueFilename ==
    (pc = "done" /\ ffmpeg_path = "none" /\ Len(audio_files) > 0) =>
        /\ Len(successful) = 0
        /\ total_processed = 0
        /\ Len(failed) = UniqueCount
        /\ \A i \in 1..Len(failed) : failed[i].error_message = "FFmpeg not found"

\* C4: with a resolved transcoder and no cancellation, a failed item does not
\* stop the loop: while it runs, the items attempted are exactly the first idx
\* unique names, and at the return every unique name is in exactly one of the
\* two lists and total_processed is the number of unique names.
C4_FailuresDoNotAbort ==
    (ffmpeg_path # "none" /\ ~Cancelled) =>
        /\ pc = "loop" =>
              /\ AttemptedFiles = SubSeq(unique_files, 1, idx)
              /\ Len(successful) + Len(failed) = idx
        /\ pc = "done" =>
              /\ \A f \in Range(audio_files) :
                    Occurrences(OriginalFiles(successful \o failed), f) = 1
              /\ Len(successful) + Len(failed) = UniqueCount
              /\ total_processed = UniqueCount

\* C4 witness: a finished run of three unique names in which the first item
\* failed in the transcoder, a later item found its source missing, and
\* another item succeeded.
C4_Witness ==
    /\ pc = "done"
    /\ ffmpeg_path # "none"
    /\ ~Cancelled
    /\ UniqueCount = 3
    /\ Len(failed) = 2
    /\ failed[1].original_file = unique_files[1]
    /\ failed[1].error_message = "FFmpeg timed out"
    /\ failed[2].error_message = "File not found"
    /\ Len(successful) = 1

\* C5 (as the specification states it): an item whose output file exists when
\* its transcode step is entered is a success and runs no transcoder, whatever
\* the media directory holds.
C5_ExistingOutputIsSuccess ==
    \A i \in 1..Len(attempts) :
        attempts[i].output_existed => (attempts[i].success /\ attempts[i].runs = 0)

\* C5 (amended): an item whose output file exists when process_audio_file is
\* entered runs no transcoder, and it is a success exactly when its source
\* file exists too.
C5_ExistingOutputNotRerun ==
    \A i \in 1..Len(attempts) :
        attempts[i].output_existed =>
            /\ attempts[i].runs = 0
            /\ attempts[i].success <=> attempts[i].source_existed

\* C5 witness: an item entered with both its source and its output present,
\* and another entered with its output present and its source missing.
C5_Witness ==
    /\ \E i \in 1..Len(attempts) :
          attempts[i].output_existed /\ attempts[i].source_existed /\ attempts[i].success
    /\ \E i \in 1..Len(attempts) :
          attempts[i].output_existed /\ ~attempts[i].source_existed

----------------------------------------------------------------------------
(* Claims on build_atempo_filter, under SpecPlan.                          *)

\* C10 (as the specification states it): for speed 4.0 the chain is the three
\* stages 2.0, 2.0, 1.0.
C10_ThreeStages ==
    (pc = "planned" /\ speed = 4 * SpeedUnit) =>
        ChainValues = <<2 * SpeedUnit, 2 * SpeedUnit, SpeedUnit>>

\* C10 (amended): for speed 4.0 the chain is the two stages 2.0 and 2.000000;
\* the loop stops once the remainder is 2.0 and no stage 1.0 follows.
C10_TwoStages ==
    (pc = "planned" /\ speed = 4 * SpeedUnit) =>
        /\ filter_chain = << <<"2", ".", "0">>,
                             <<"2", ".", "0", "0", "0", "0", "0", "0">> >>
        /\ ChainValues = <<2 * SpeedUnit, 2 * SpeedUnit>>

\* C10 witness: the planner has run on speed 4.0.
C10_Witness == pc = "planned" /\ speed = 4 * SpeedUnit /\ Len(filter_chain) > 0

\* C11: for every speed with 0.5 <= speed <= 2.0, both ends included, the chain
\* is exactly one stage, and the factor that stage denotes is the speed.
C11_SingleStageInWindow ==
    (pc = "planned" /\ SpeedUnit <= 2 * speed /\ speed <= 2 * SpeedUnit) =>
        /\ Len(filter_chain) = 1
        /\ ChainValues = <<speed>>

\* C11 witness: the planner has run on a speed of seven decimals inside the
\* window and returned it as one stage.
C11_Witness ==
    /\ pc = "planned"
    /\ speed = SpeedUnit + 2345678
    /\ filter_chain = << <<"1", ".", "2", "3", "4", "5", "6", "7", "8">> >>

\* C17 (as the specification states it): for every positive speed, those below
\* 0.5 included, the chain is not empty and each of its stages lies in the
\* window [0.5, 2.0].
C17_ChainNeverEmpty ==
    (pc = "planned" /\ speed > 0) =>
        /\ Len(filter_chain) >= 1
        /\ \A i \in 1..Len(filter_chain) :
              SpeedUnit <= 2 * ChainValues[i] /\ ChainValues[i] <= 2 * SpeedUnit

\* 2 to the power n
RECURSIVE Pow2(_)
Pow2(n) == IF n = 0 THEN 1 ELSE 2 * Pow2(n - 1)

\* the stages of the chain before its last one are all written "2.0"
LeadingStagesAreTwo ==
    \A i \in 1..(Len(filter_chain) - 1) : filter_chain[i] = <<"2", ".", "0">>

\* C18 (as the specification states it): for every speed above 2.0 the chain is
\* n >= 1 stages of exactly 2.0 followed by one remainder stage r with
\* 1.0 < r <= 2.0 and 2^n * r = speed.
C18_ExactRemainder ==
    (pc = "planned" /\ speed > 2 * SpeedUnit) =>
        LET n == Len(filter_chain) - 1
        IN  /\ n >= 1
            /\ LeadingStagesAreTwo
            /\ SpeedUnit < ChainValues[n + 1]
            /\ ChainValues[n + 1] <= 2 * SpeedUnit
            /\ Pow2(n) * ChainValues[n + 1] = speed

\* C18 (amended): for every speed above 2.0 the chain is n >= 1 stages of
\* exactly 2.0 followed by one last stage; speed / 2^n lies in (1.0, 2.0], and
\* the last stage r is that remainder written to six decimals, so
\* 1.0 <= r <= 2.0 and 2^n * r differs from speed by at most 2^n * 0.0000005.
C18_RoundedRemainder ==
    (pc = "planned" /\ speed > 2 * SpeedUnit) =>
        LET n == Len(filter_chain) - 1
            r == ChainValues[n + 1]
            half == (SpeedUnit \div 1000000) * Pow2(n)
        IN  /\ n >= 1
            /\ LeadingStagesAreTwo
            /\ Pow2(n) * SpeedUnit < speed
            /\ speed <= Pow2(n + 1) * SpeedUnit
            /\ filter_chain[n + 1] = FormatSixDecimal(speed, Pow2(n))
            /\ SpeedUnit <= r /\ r <= 2 * SpeedUnit
            /\ 2 * (Pow2(n) * r - speed) <= half
            /\ 2 * (speed - Pow2(n) * r) <= half

\* C18 witness: the planner has run on 2.0000001, whose remainder 1.00000005
\* is written 1.000000.
C18_Witness ==
    /\ pc = "planned"
    /\ speed = 2 * SpeedUnit + 1
    /\ filter_chain = << <<"2", ".", "0">>,
                         <<"1", ".", "0", "0", "0", "0", "0", "0">> >>

----------------------------------------------------------------------------
(* Claims on the reference rewriter, under SpecRewrite.                    *)

\* the (note, field index) pairs the ledger names
LedgerFields ==
    {<<undo_record.card_updates[i].note_id, undo_record.card_updates[i].field_index>> :
        i \in 1..Len(undo_record.card_updates)}

\* the note ids of a list of updates
NoteIds(updates) == {updates[i].note_id : i \in 1..Len(updates)}

\* the note ids update_note was called with in the running pass, in order
LoggedNotes == [i \in 1..Len(updateLog) |-> updateLog[i].note_id]

\* the edits of updates that belong to note n, in order
EditsOf(updates, n) == SelectSeq(updates, LAMBDA u : u.note_id = n)

\* The fields of a note after its edits were applied one after the other, each
\* to the text the previous one produced; forward swaps old for new.
RECURSIVE EditedInOrder(_, _, _)
EditedInOrder(fields, edits, forward) ==
    IF Len(edits) = 0 THEN fields
    ELSE LET u == edits[1]
             from == IF forward THEN u.old_tag ELSE u.new_tag
             to == IF forward THEN u.new_tag ELSE u.old_tag
         IN  EditedInOrder(
                 [fields EXCEPT ![u.field_index + 1] = Replace(@, from, to)],
                 Tail(edits), forward)

\* C6 (as the specification states it): after commit and one revert of the
\* returned ledger, every field of every record is the text it was before the
\* commit.
C6_RevertRestoresText ==
    (pc = "reverted" /\ reverts = 1) => notes = preCommit

\* C7: a second revert_card_updates on the same ledger leaves every field as the
\* first revert left it, and the dialog calls revert_card_updates at most once:
\* after a revert that succeeded, the undo button is disabled.
C7_SecondRevertIsNoOp ==
    /\ (pc = "revert" \/ (pc = "reverted" /\ reverts >= 2)) => notes = preRevert
    /\ undo_applied => ~undo_enabled
    /\ undoCalls <= 1
    /\ (pc = "reverted" /\ reverts >= 1) => (undo_applied /\ undoCalls = 1)

\* C7 witness: the ledger has been reverted twice, it holds an edit that changed
\* a tag, and the text of that edit's field holds the old tag again.
C7_Witness ==
    /\ pc = "reverted"
    /\ reverts = 2
    /\ undoCalls = 1
    /\ \E i \in 1..Len(undo_record.card_updates) :
          LET u == undo_record.card_updates[i]
          IN  /\ u.old_tag # u.new_tag
              /\ Contains(preCommit[u.note_id][u.field_index + 1], u.old_tag)
              /\ Contains(notes[u.note_id][u.field_index + 1], u.old_tag)

\* C8: in a commit pass and in a revert pass, update_note is called at most once
\* per record and only for records that have an edit; what it writes is the
\* loaded text with all edits of the record applied in order, each to the result
\* of the previous one; and when the pass ends it has been called for every
\* record that has an edit.
C8_OneUpdatePerRecord ==
    /\ pc \in {"commit", "dialog"} =>
          /\ NoDuplicates(LoggedNotes)
          /\ Range(LoggedNotes) \subseteq NoteIds(card_updates)
          /\ \A i \in 1..Len(updateLog) :
                updateLog[i].fields =
                    EditedInOrder(preCommit[updateLog[i].note_id],
                                  EditsOf(card_updates, updateLog[i].note_id), TRUE)
          /\ pc = "dialog" => Range(LoggedNotes) = NoteIds(card_updates)
    /\ pc \in {"undo", "revert", "reverted"} =>
          /\ NoDuplicates(LoggedNotes)
          /\ Range(LoggedNotes) \subseteq NoteIds(undo_record.card_updates)
          /\ \A i \in 1..Len(updateLog) :
                updateLog[i].fields =
                    EditedInOrder(preRevert[updateLog[i].note_id],
                                  EditsOf(undo_record.card_updates, updateLog[i].note_id),
                                  FALSE)
          /\ pc = "reverted" => Range(LoggedNotes) = NoteIds(undo_record.card_updates)

\* C8 witness: a commit pass has ended in which one record got two edits of
\* different tags in the same field, and a detected record got no edit and no
\* update.
C8_Witness ==
    /\ pc = "dialog"
    /\ Len(updateLog) = 1
    /\ \E i, j \in 1..Len(card_updates) :
          /\ card_updates[i].note_id = card_updates[j].note_id
          /\ card_updates[i].field_index = card_updates[j].field_index
          /\ card_updates[i].old_tag # card_updates[j].old_tag
          /\ card_updates[i].new_tag # card_updates[j].new_tag
    /\ \E i \in 1..Len(detected.audio_files) :
          detected.audio_files[i].note_id \notin NoteIds(card_updates)

\* what a step taken while revert_card_updates runs must leave alone
RevertFrame ==
    pc \in {"undo", "revert"} =>
        /\ mediaDir' = mediaDir
        /\ \A n \in DOMAIN notes : \A k \in 1..Len(notes[n]) :
              <<n, k - 1>> \notin LedgerFields => notes'[n][k] = notes[n][k]

\* C9: a step of revert_card_updates leaves the media directory as it is, and
\* leaves every field that no edit of the ledger names as it is.
C9_RevertOnlyRewritesNamedFields == [][RevertFrame]_vars

\* C9 witness: a revert has ended that changed text, the produced files are in
\* the media directory, and a field that holds a tag is named by no edit.
C9_Witness ==
    /\ pc = "reverted"
    /\ reverts = 1
    /\ notes # preRevert
    /\ \A f \in DOMAIN undo_record.processed_files :
          Exists(mediaDir, undo_record.processed_files[f])
    /\ \E n \in DOMAIN notes : \E k \in 1..Len(notes[n]) :
          /\ <<n, k - 1>> \notin LedgerFields
          /\ Len(extract_sound_tags(notes[n][k])) > 0


----------------------------------------------------------------------------
(* Claims on the order of process_audio_batch, under SpecBatch.            *)

\* the distinct elements of s, each at the place of its first occurrence
RECURSIVE FirstSeen(_)
FirstSeen(s) ==
    IF Len(s) = 0 THEN <<>>
    ELSE LET front == SubSeq(s, 1, Len(s) - 1)
         IN  IF s[Len(s)] \in Range(front) THEN FirstSeen(front)
             ELSE Append(FirstSeen(front), s[Len(s)])

\* the file names of the attempts that ended as success says, in attempt order
AttemptedWith(success) ==
    LET chosen == SelectSeq(attempts, LAMBDA a : a.success = success)
    IN  [i \in 1..Len(chosen) |-> chosen[i].filename]

OutputExistsAfter(run) == run.output_existed \/ run.outcome.writes

\* C19 (as the specification states it): a run is reported as a success only if
\* the transcoder exited with code zero and the output exists with a size that
\* exceeds 100 bytes; every other run is returned as a failure, and the batch
\* lists the item accordingly.
C19_SuccessNeedsMoreThan100Bytes ==
    \A i \in 1..Len(invocations) :
        LET run == invocations[i]
        IN  /\ run.returned[1] =
                  (/\ run.outcome.exit = "zero"
                   /\ OutputExistsAfter(run)
                   /\ run.outcome.size > MinOutputSize)
            /\ run.returned[1] = (run.input \in Range(OriginalFiles(successful)))
            /\ ~run.returned[1] => run.input \in Range(OriginalFiles(failed))

\* C19 (amended): a run is reported as a success exactly if the transcoder
\* exited with code zero and the output exists with a size of at least 100
\* bytes; a zero exit code with a missing output or an output of fewer than 100
\* bytes, a non-zero exit code, a timeout and any other error of the run are
\* each returned as a failure with a message, and the batch lists the item
\* accordingly.
C19_SuccessNeedsAtLeast100Bytes ==
    \A i \in 1..Len(invocations) :
        LET run == invocations[i]
        IN  /\ run.returned[1] =
                  (/\ run.outcome.exit = "zero"
                   /\ OutputExistsAfter(run)
                   /\ run.outcome.size >= MinOutputSize)
            /\ run.returned[1] = (run.returned[2] = NoMessage)
            /\ run.returned[1] = (run.input \in Range(OriginalFiles(successful)))
            /\ ~run.returned[1] => run.input \in Range(OriginalFiles(failed))

\* C19 witness: a run that exited with code zero and left an output of exactly
\* 100 bytes has been reported as a success, and another run as a failure.
C19_Witness ==
    /\ \E i \in 1..Len(invocations) :
          /\ invocations[i].outcome.exit = "zero"
          /\ invocations[i].outcome.size = MinOutputSize
          /\ invocations[i].returned[1]
          /\ mediaDir[invocations[i].output] = MinOutputSize
    /\ \E i \in 1..Len(invocations) : ~invocations[i].returned[1]

\* a step keeps every file of the media directory, with its size
KeepsStoredFiles ==
    \A n \in DOMAIN mediaDir : n \in DOMAIN mediaDir' /\ mediaDir'[n] = mediaDir[n]

\* after a step, every run of the transcoder made so far wrote to a path that
\* did not exist when the run started, and that is not its source
RunsOnFreshOutputOnly ==
    \A i \in 1..Len(invocations') :
        /\ ~invocations'[i].output_existed
        /\ invocations'[i].output # invocations'[i].input

\* C20: in a batch run the transcoder is never run with an output path that
\* exists in the media directory, in particular never with its source as
\* output, and no step of the run overwrites or deletes a file of the media
\* directory.
C20_NeverOverwrites == [][KeepsStoredFiles /\ RunsOnFreshOutputOnly]_vars

\* C20 witness: in one run a_1.2x.mp3 was a candidate at 1.2, its output being
\* itself, and was passed over without a run, while the transcoder ran for
\* another candidate.
C20_Witness ==
    /\ pc = "done"
    /\ \E i \in 1..Len(attempts) :
          /\ attempts[i].filename = NameA12
          /\ generate_speed_filename(NameA12, speed) = NameA12
          /\ attempts[i].output_existed
          /\ attempts[i].runs = 0
    /\ Len(invocations) > 0

\* the note of the card holds at least one tag naming a file of supported format
HasSupportedReference(store, card_id) ==
    \E k \in 1..Len(store[NoteOfCard(card_id)]) :
        \E name \in Range(extract_sound_tags(store[NoteOfCard(card_id)][k])) :
            is_supported_format(name)

\* C14 (as the specification states it): whatever list of ids detection is
\* given, one that names an id twice included, cards_with_audio is the number of
\* distinct given ids that hold a supported reference and cards_without_audio
\* the number of distinct given ids that hold none.
C14_SummaryCountsDistinctRecords ==
    pc = "detected" =>
        /\ detected.cards_with_audio =
              Cardinality({c \in Range(card_ids) : HasSupportedReference(notes, c)})
        /\ detected.cards_without_audio =
              Cardinality({c \in Range(card_ids) : ~HasSupportedReference(notes, c)})

----------------------------------------------------------------------------
(* Claims on generate_speed_filename and on detection, under SpecName.     *)

\* C12: for a file name of supported extension and any two speeds,
\* generate_speed_filename applied to its own result at the second speed gives
\* what it gives on the first name at the second speed: the second suffix
\* stands where the first one stood, and is not added after it.
C12_SecondSuffixReplacesFirst ==
    (pc \in {"renamed_again", "name_detected"} /\ is_supported_format(given_name)) =>
        /\ renamed_again = renamed_direct
        /\ SpeedPatternSearch(renamed_again)[1] # 0
        /\ SubSeq(renamed_again, 1, SpeedPatternSearch(renamed_again)[1] - 1)
              = SubSeq(renamed, 1, SpeedPatternSearch(renamed)[1] - 1)

\* C12 witness: a.mp3 renamed at 1.2 and then at 1.5 is a_1.5x.mp3.
C12_Witness ==
    /\ pc = "renamed_again"
    /\ given_name = NameA
    /\ renamed = NameA12
    /\ new_speed = Tenths(15)
    /\ renamed_again = NameA15

\* the speed s rounded to one decimal
RoundedToTenth(s) == RoundHalfEven(s, SpeedUnit \div 10) * (SpeedUnit \div 10)

\* C13: for a file name of supported extension and a speed above 0, detection
\* of the name generate_speed_filename produced reports it as already processed,
\* with the speed rounded to one decimal as its prior speed.
C13_ProducedNameIsDetected ==
    (pc = "name_detected" /\ is_supported_format(given_name) /\ speed > 0) =>
        /\ Len(detected.audio_files) = 1
        /\ detected.audio_files[1].filename = renamed
        /\ detected.audio_files[1].is_processed
        /\ detected.audio_files[1].original_speed = Some(RoundedToTenth(speed))
        /\ detected.already_processed_count = 1

\* C13 witness: a name produced at 12.34 has been detected, with prior speed
\* 12.3.
C13_Witness ==
    /\ pc = "name_detected"
    /\ given_name = NameDotted
    /\ speed = 1234 * (SpeedUnit \div 100)
    /\ Len(detected.audio_files) = 1
    /\ detected.audio_files[1].original_speed = Some(123 * (SpeedUnit \div 10))

----------------------------------------------------------------------------
(* Claims on the session of the dialog, under SpecSession.                 *)

\* C16 (as the specification states it): the preview working directory made
\* when the session starts is removed on every way the session can end: no
\* audio found, Cancel, OK after processing, OK after a failed batch, and the
\* closing of the window.
C16_TempDirRemovedAtEnd ==
    pc = "ended" => temp_dir = "removed"

============================================================================
